---- MODULE Spec2Model ----
(***************************************************************************)
(* AstReferenceResolver (api-extractor): resolution of a TSDoc declaration *)
(* reference against the AstSymbolTable of the working package.            *)
(*                                                                         *)
(* The resolver is modelled twice from the same building blocks: as the    *)
(* operator resolve(t, ref) (the function the method computes) and as a    *)
(* step machine that follows the control flow of the method, one action    *)
(* per block of AstReferenceResolver.resolve.                              *)
(***************************************************************************)
EXTENDS Integers, Sequences, FiniteSets, TLC

(***************************************************************************)
(* Bounds of the model.                                                    *)
(***************************************************************************)
\* longest memberReferences array of a checked reference
MaxSegments == 2

\* the JavaScript value undefined, for string-valued properties
Undefined == "undefined"

\* identifiers used for exports, members and member references
Names == {"a", "b"}

\* WorkingPackage.name
WorkingPackageName == "widgets"

PackageNames == {Undefined, WorkingPackageName, "other-pkg", ""}

ImportPaths == {Undefined, "", "./lib/x"}

\* declaration.kind of the declarations of the checked tables
KindsUsed == {"ClassDeclaration", "ModuleDeclaration"}

\* handles of the AstDeclaration objects of a table
Nodes == {1, 2, 3, 4}

(***************************************************************************)
(* tsdoc.DocMemberReference                                                *)
(***************************************************************************)
\* memberReference.selector === undefined
NoSelector == [selectorKind |-> Undefined, selector |-> Undefined]

Selectors ==
  { NoSelector,
    [selectorKind |-> "system", selector |-> "class"],
    [selectorKind |-> "system", selector |-> "namespace"],
    [selectorKind |-> "system", selector |-> "constructor"],
    [selectorKind |-> "label", selector |-> "MY_LABEL"] }

\* a member reference keyed by an ECMAScript symbol: [Symbol.iterator]
SymbolSegment ==
  [memberSymbol |-> "Symbol.iterator", memberIdentifier |-> Undefined, selector |-> NoSelector]

\* a member reference with neither identifier nor symbol
EmptySegment ==
  [memberSymbol |-> Undefined, memberIdentifier |-> Undefined, selector |-> NoSelector]

Segments ==
  {SymbolSegment, EmptySegment} \cup
  { [memberSymbol |-> Undefined, memberIdentifier |-> n, selector |-> s] :
      n \in Names, s \in Selectors }

SegmentLists == UNION { [1..k -> Segments] : k \in 0..MaxSegments }

\* tsdoc.DocDeclarationReference
References ==
  [packageName : PackageNames, importPath : ImportPaths, memberReferences : SegmentLists]

(***************************************************************************)
(* AstSymbolTable, AstEntity, AstDeclaration                               *)
(***************************************************************************)
\* tryGetExportOfAstModule returned undefined
NoEntity == [type |-> "undefined", localName |-> Undefined, astDeclarations |-> << >>]

\* an AstImport: a declaration reexported from another package
ImportEntity == [type |-> "AstImport", localName |-> Undefined, astDeclarations |-> << >>]

AstSymbol(name, decls) == [type |-> "AstSymbol", localName |-> name, astDeclarations |-> decls]

\* An AstDeclaration: the name of its AstSymbol, declaration.kind, and its
\* children in the order they were added.
Decl(name, kind, children) == [name |-> name, kind |-> kind, children |-> children]

\* The tables of the model.  Export "a" is a namespace (node 1) that is merged
\* with a second declaration (node 2) when merged; otherwise node 2 is the only
\* declaration of the local symbol "a2", exported under the name "b" unless
\* "b" is a reexport.  Nodes 3 and 4 are named "b"; node 3 is a member of the
\* namespace, node 4 is a second declaration of the same member or, when
\* nested, a member of node 3.
MakeTable(merged, reexport, kind2, kind3, kind4, nested) ==
  [ decls |->
      [ n \in Nodes |->
          CASE n = 1 -> Decl("a", "ModuleDeclaration", IF nested THEN <<3>> ELSE <<3, 4>>)
            [] n = 2 -> Decl(IF merged THEN "a" ELSE "a2", kind2, << >>)
            [] n = 3 -> Decl("b", kind3, IF nested THEN <<4>> ELSE << >>)
            [] n = 4 -> Decl("b", kind4, << >>) ],
    exports |->
      [ x \in Names |->
          CASE x = "a" -> AstSymbol("a", IF merged THEN <<1, 2>> ELSE <<1>>)
            [] x = "b" -> IF reexport THEN ImportEntity
                          ELSE IF merged THEN NoEntity
                          ELSE AstSymbol("a2", <<2>>) ] ]

Tables ==
  { MakeTable(m, r, k2, k3, k4, nst) :
      m \in BOOLEAN, r \in BOOLEAN, k2 \in KindsUsed, k3 \in KindsUsed, k4 \in KindsUsed,
      nst \in BOOLEAN }

(***************************************************************************)
(* Results: an AstDeclaration (node) or a ResolverFailure (reason).  kind   *)
(* names the return statement that produced the failure.                   *)
(***************************************************************************)
ResolverFailure(kind, reason) == [kind |-> kind, node |-> 0, reason |-> reason]

Resolved(n) == [kind |-> "AstDeclaration", node |-> n, reason |-> << >>]

IsFailure(r) == r.kind # "AstDeclaration"

NoResult == [kind |-> "none", node |-> 0, reason |-> << >>]

\* if (declarationReference.importPath): undefined and "" are falsy
Truthy(s) == s # Undefined /\ s # ""

(***************************************************************************)
(* Collaborators of the resolver.                                          *)
(***************************************************************************)
\* AstSymbolTable.tryGetExportOfAstModule(exportName, astModule) for the entry
\* point of the working package
TryGetExportOfAstModule(t, exportName) ==
  IF exportName \in DOMAIN t.exports THEN t.exports[exportName] ELSE NoEntity

\* AstDeclaration.findChildrenWithName(name): the children with exactly that
\* name, in their order
FindChildrenWithName(t, n, name) ==
  SelectSeq(t.decls[n].children, LAMBDA c : t.decls[c].name = name)

(***************************************************************************)
(* AstReferenceResolver._getMemberReferenceIdentifier                      *)
(* A string result is returned as the reason <<identifier>> of a result of *)
(* kind "identifier".                                                      *)
(***************************************************************************)
GetMemberReferenceIdentifier(memberReference) ==
  IF memberReference.memberSymbol # Undefined
    THEN ResolverFailure("UnsupportedSymbolSelector",
                         <<"ECMAScript symbol selectors are not supported">>)
  ELSE IF memberReference.memberIdentifier = Undefined
    THEN ResolverFailure("MissingMemberIdentifier",
                         <<"The member identifier is missing in the root member reference">>)
  ELSE [kind |-> "identifier", node |-> 0, reason |-> <<memberReference.memberIdentifier>>]

IsIdentifier(r) == r.kind = "identifier"

(***************************************************************************)
(* AstReferenceResolver._selectDeclaration                                 *)
(***************************************************************************)
\* the switch with a default branch that falls back to classes
SelectorSyntaxKind_DefaultClass(selectorName) ==
  CASE selectorName = "class" -> "ClassDeclaration"
    [] selectorName = "enum" -> "EnumDeclaration"
    [] selectorName = "function" -> "FunctionDeclaration"
    [] selectorName = "interface" -> "InterfaceDeclaration"
    [] selectorName = "namespace" -> "ModuleDeclaration"
    [] selectorName = "type" -> "TypeAliasDeclaration"
    [] selectorName = "variable" -> "VariableDeclaration"
    [] OTHER -> "ClassDeclaration"

\* the switch on selectorName: the ts.SyntaxKind selected, Undefined for the
\* default branch
SelectorSyntaxKind(selectorName) ==
  CASE selectorName = "class" -> "ClassDeclaration"
    [] selectorName = "enum" -> "EnumDeclaration"
    [] selectorName = "function" -> "FunctionDeclaration"
    [] selectorName = "interface" -> "InterfaceDeclaration"
    [] selectorName = "namespace" -> "ModuleDeclaration"
    [] selectorName = "type" -> "TypeAliasDeclaration"
    [] selectorName = "variable" -> "VariableDeclaration"
    [] OTHER -> Undefined

\* astDeclarations.filter(x => x.declaration.kind === selectorSyntaxKind)
FilterByKind(t, astDeclarations, selectorSyntaxKind) ==
  SelectSeq(astDeclarations, LAMBDA x : t.decls[x].kind = selectorSyntaxKind)

\* _selectDeclaration taking the first declaration of an overloaded name
\* that has no selector
SelectDeclaration_FirstOfMany(t, astDeclarations, memberReference, astSymbolName) ==
  IF memberReference.selector = NoSelector
    THEN IF Len(astDeclarations) >= 1
           THEN Resolved(astDeclarations[1])
           ELSE ResolverFailure("AmbiguousReference",
                  <<"The reference is ambiguous because", astSymbolName,
                    "has more than one declaration; you need to add a TSDoc member reference selector">>)
  ELSE LET selectorName == memberReference.selector.selector IN
    IF memberReference.selector.selectorKind # "system"
      THEN ResolverFailure("UnsupportedSelectorFamily",
             <<"The selector", selectorName, "is not a supported selector type">>)
    ELSE LET selectorSyntaxKind == SelectorSyntaxKind(selectorName) IN
      IF selectorSyntaxKind = Undefined
        THEN ResolverFailure("UnsupportedSelectorValue",
               <<"Unsupported system selector", selectorName>>)
      ELSE LET matches == FilterByKind(t, astDeclarations, selectorSyntaxKind) IN
        IF Len(matches) = 0
          THEN ResolverFailure("NoDeclarationForSelector",
                 <<"A declaration for", astSymbolName,
                   "was not found that matches the TSDoc selector", selectorName>>)
        ELSE IF Len(matches) > 1
          THEN ResolverFailure("AmbiguousSelectorMatch",
                 <<"More than one declaration", astSymbolName,
                   "matches the TSDoc selector", selectorName>>)
        ELSE Resolved(matches[1])

\* _selectDeclaration taking the first declaration of the selected kind
SelectDeclaration_FirstMatch(t, astDeclarations, memberReference, astSymbolName) ==
  IF memberReference.selector = NoSelector
    THEN IF Len(astDeclarations) = 1
           THEN Resolved(astDeclarations[1])
           ELSE ResolverFailure("AmbiguousReference",
                  <<"The reference is ambiguous because", astSymbolName,
                    "has more than one declaration; you need to add a TSDoc member reference selector">>)
  ELSE LET selectorName == memberReference.selector.selector IN
    IF memberReference.selector.selectorKind # "system"
      THEN ResolverFailure("UnsupportedSelectorFamily",
             <<"The selector", selectorName, "is not a supported selector type">>)
    ELSE LET selectorSyntaxKind == SelectorSyntaxKind(selectorName) IN
      IF selectorSyntaxKind = Undefined
        THEN ResolverFailure("UnsupportedSelectorValue",
               <<"Unsupported system selector", selectorName>>)
      ELSE LET matches == FilterByKind(t, astDeclarations, selectorSyntaxKind) IN
        IF Len(matches) = 0
          THEN ResolverFailure("NoDeclarationForSelector",
                 <<"A declaration for", astSymbolName,
                   "was not found that matches the TSDoc selector", selectorName>>)
        ELSE Resolved(matches[1])

SelectDeclaration(t, astDeclarations, memberReference, astSymbolName) ==
  IF memberReference.selector = NoSelector
    THEN IF Len(astDeclarations) = 1
           THEN Resolved(astDeclarations[1])
           ELSE ResolverFailure("AmbiguousReference",
                  <<"The reference is ambiguous because", astSymbolName,
                    "has more than one declaration; you need to add a TSDoc member reference selector">>)
  ELSE LET selectorName == memberReference.selector.selector IN
    IF memberReference.selector.selectorKind # "system"
      THEN ResolverFailure("UnsupportedSelectorFamily",
             <<"The selector", selectorName, "is not a supported selector type">>)
    ELSE LET selectorSyntaxKind == SelectorSyntaxKind(selectorName) IN
      IF selectorSyntaxKind = Undefined
        THEN ResolverFailure("UnsupportedSelectorValue",
               <<"Unsupported system selector", selectorName>>)
      ELSE LET matches == FilterByKind(t, astDeclarations, selectorSyntaxKind) IN
        IF Len(matches) = 0
          THEN ResolverFailure("NoDeclarationForSelector",
                 <<"A declaration for", astSymbolName,
                   "was not found that matches the TSDoc selector", selectorName>>)
        ELSE IF Len(matches) > 1
          THEN ResolverFailure("AmbiguousSelectorMatch",
                 <<"More than one declaration", astSymbolName,
                   "matches the TSDoc selector", selectorName>>)
        ELSE Resolved(matches[1])

(***************************************************************************)
(* AstReferenceResolver.resolve, block by block                            *)
(***************************************************************************)
\* the package name test written as the import path test is
PackageNameCheck_Truthy(ref) ==
  IF Truthy(ref.packageName) /\ ref.packageName # WorkingPackageName
    THEN ResolverFailure("UnsupportedExternalPackage",
                         <<"External package references are not supported">>)
    ELSE NoResult

\* lines 50-56: is it referring to the working package?
PackageNameCheck(ref) ==
  IF ref.packageName # Undefined /\ ref.packageName # WorkingPackageName
    THEN ResolverFailure("UnsupportedExternalPackage",
                         <<"External package references are not supported">>)
    ELSE NoResult

\* resolve without the import path test
ImportPathCheck_Missing(ref) == NoResult

\* lines 58-61: is it a path-based import?
ImportPathCheck(ref) ==
  IF Truthy(ref.importPath)
    THEN ResolverFailure("UnsupportedImportPath", <<"Import paths are not supported">>)
    ELSE NoResult

\* the root lookup without the test for AstImport
RootLookup_FollowsReexport(t, ref) ==
  IF Len(ref.memberReferences) = 0
    THEN ResolverFailure("EmptyReference", <<"Package references are not supported">>)
  ELSE LET exportName == GetMemberReferenceIdentifier(ref.memberReferences[1]) IN
    IF ~IsIdentifier(exportName) THEN exportName
    ELSE LET rootAstEntity == TryGetExportOfAstModule(t, exportName.reason[1]) IN
      IF rootAstEntity = NoEntity
        THEN ResolverFailure("UnknownExport",
               <<"The package", WorkingPackageName, "does not have an export",
                 exportName.reason[1]>>)
      ELSE NoResult

\* lines 63-91: the failure of the root lookup, NoResult when the first member
\* reference names a local export
RootLookup(t, ref) ==
  IF Len(ref.memberReferences) = 0
    THEN ResolverFailure("EmptyReference", <<"Package references are not supported">>)
  ELSE LET exportName == GetMemberReferenceIdentifier(ref.memberReferences[1]) IN
    IF ~IsIdentifier(exportName) THEN exportName
    ELSE LET rootAstEntity == TryGetExportOfAstModule(t, exportName.reason[1]) IN
      IF rootAstEntity = NoEntity
        THEN ResolverFailure("UnknownExport",
               <<"The package", WorkingPackageName, "does not have an export",
                 exportName.reason[1]>>)
      ELSE IF rootAstEntity.type = "AstImport"
        THEN ResolverFailure("UnsupportedReexport",
               <<"Reexported declarations are not supported">>)
      ELSE NoResult

\* the entity the root lookup found (when RootLookup is NoResult)
RootAstEntity(t, ref) ==
  TryGetExportOfAstModule(t, ref.memberReferences[1].memberIdentifier)

\* the member lookup with the selector family tested before the children
MemberLookup_SelectorFirst(t, currentDeclaration, memberReference) ==
  LET memberName == GetMemberReferenceIdentifier(memberReference) IN
    IF ~IsIdentifier(memberName) THEN memberName
    ELSE IF memberReference.selector # NoSelector
            /\ memberReference.selector.selectorKind # "system"
      THEN ResolverFailure("UnsupportedSelectorFamily",
             <<"The selector", memberReference.selector.selector,
               "is not a supported selector type">>)
    ELSE IF Len(FindChildrenWithName(t, currentDeclaration, memberName.reason[1])) = 0
      THEN ResolverFailure("NoMatchingMember",
             <<"No member was found with name", memberName.reason[1]>>)
    ELSE NoResult

\* lines 106-117: the failure of the member lookup of one pass of the loop,
\* NoResult when currentDeclaration has children with the name
MemberLookup(t, currentDeclaration, memberReference) ==
  LET memberName == GetMemberReferenceIdentifier(memberReference) IN
    IF ~IsIdentifier(memberName) THEN memberName
    ELSE IF Len(FindChildrenWithName(t, currentDeclaration, memberName.reason[1])) = 0
      THEN ResolverFailure("NoMatchingMember",
             <<"No member was found with name", memberName.reason[1]>>)
    ELSE NoResult

\* lines 103-131: the loop over memberReferences[index..], from currentDeclaration
RECURSIVE Descend(_, _, _, _)
Descend(t, ref, index, currentDeclaration) ==
  IF index > Len(ref.memberReferences) THEN Resolved(currentDeclaration)
  ELSE LET memberReference == ref.memberReferences[index]
           lookup == MemberLookup(t, currentDeclaration, memberReference)
       IN IF lookup # NoResult THEN lookup
          ELSE LET memberName == memberReference.memberIdentifier
                   selectedDeclaration ==
                     SelectDeclaration(t, FindChildrenWithName(t, currentDeclaration, memberName),
                                       memberReference, memberName)
               IN IF IsFailure(selectedDeclaration) THEN selectedDeclaration
                  ELSE Descend(t, ref, index + 1, selectedDeclaration.node)

\* AstReferenceResolver.resolve
resolve(t, ref) ==
  IF PackageNameCheck(ref) # NoResult THEN PackageNameCheck(ref)
  ELSE IF ImportPathCheck(ref) # NoResult THEN ImportPathCheck(ref)
  ELSE IF RootLookup(t, ref) # NoResult THEN RootLookup(t, ref)
  ELSE LET rootAstEntity == RootAstEntity(t, ref)
           currentDeclaration ==
             SelectDeclaration(t, rootAstEntity.astDeclarations, ref.memberReferences[1],
                               rootAstEntity.localName)
       IN IF IsFailure(currentDeclaration) THEN currentDeclaration
          ELSE Descend(t, ref, 2, currentDeclaration.node)

(***************************************************************************)
(* The resolver as a step machine.                                         *)
(***************************************************************************)
VARIABLES
  table,               \* the AstSymbolTable and the declarations it holds
  reference,           \* the argument of the call in progress
  pc,                  \* position of the call in resolve
  index,               \* index of the member reference being processed (1-based)
  astDeclarations,     \* candidates handed to _selectDeclaration
  astSymbolName,       \* name handed to _selectDeclaration
  currentDeclaration,  \* the local of that name, 0 before the root is selected
  result               \* value returned by the call, NoResult while it runs

vars == <<table, reference, pc, index, astDeclarations, astSymbolName,
          currentDeclaration, result>>

locals == <<index, astDeclarations, astSymbolName, currentDeclaration>>

Init ==
  /\ table \in Tables
  /\ reference \in References
  /\ pc = "packageName"
  /\ index = 1
  /\ astDeclarations = << >>
  /\ astSymbolName = Undefined
  /\ currentDeclaration = 0
  /\ result = NoResult

\* return of a ResolverFailure from resolve
Fail(f) ==
  /\ result' = f
  /\ pc' = "done"

\* lines 50-56
CheckPackageName ==
  /\ pc = "packageName"
  /\ IF PackageNameCheck(reference) # NoResult
       THEN Fail(PackageNameCheck(reference))
       ELSE pc' = "importPath" /\ UNCHANGED result
  /\ UNCHANGED <<table, reference, locals>>

\* lines 58-61
CheckImportPath ==
  /\ pc = "importPath"
  /\ IF ImportPathCheck(reference) # NoResult
       THEN Fail(ImportPathCheck(reference))
       ELSE pc' = "root" /\ UNCHANGED result
  /\ UNCHANGED <<table, reference, locals>>

\* lines 63-96: the root lookup; on success the declarations of the entity are
\* the candidates of the first selection
LookupRoot ==
  /\ pc = "root"
  /\ IF RootLookup(table, reference) # NoResult
       THEN /\ Fail(RootLookup(table, reference))
            /\ UNCHANGED locals
       ELSE /\ astDeclarations' = RootAstEntity(table, reference).astDeclarations
            /\ astSymbolName' = RootAstEntity(table, reference).localName
            /\ pc' = "select"
            /\ UNCHANGED <<index, currentDeclaration, result>>
  /\ UNCHANGED <<table, reference>>

\* a selection that goes on with the first candidate when it failed and
\* member references remain
Select_BestEffort ==
  /\ pc = "select"
  /\ LET selected == SelectDeclaration(table, astDeclarations,
                                       reference.memberReferences[index], astSymbolName)
     IN IF IsFailure(selected) /\ index = Len(reference.memberReferences)
          THEN /\ Fail(selected)
               /\ UNCHANGED <<index, currentDeclaration>>
          ELSE /\ currentDeclaration' =
                    IF IsFailure(selected) THEN astDeclarations[1] ELSE selected.node
               /\ index' = index + 1
               /\ pc' = "loop"
               /\ UNCHANGED result
  /\ UNCHANGED <<table, reference, astDeclarations, astSymbolName>>

\* lines 93-101 and 119-129: the call of _selectDeclaration for
\* memberReferences[index] and the test of what it returns
Select ==
  /\ pc = "select"
  /\ LET selected == SelectDeclaration(table, astDeclarations,
                                       reference.memberReferences[index], astSymbolName)
     IN IF IsFailure(selected)
          THEN /\ Fail(selected)
               /\ UNCHANGED <<index, currentDeclaration>>
          ELSE /\ currentDeclaration' = selected.node
               /\ index' = index + 1
               /\ pc' = "loop"
               /\ UNCHANGED result
  /\ UNCHANGED <<table, reference, astDeclarations, astSymbolName>>

\* a member lookup among all the declarations of the table
LookupMember_AnyDeclaration ==
  /\ pc = "loop"
  /\ index <= Len(reference.memberReferences)
  /\ LET memberReference == reference.memberReferences[index]
         lookup == MemberLookup(table, currentDeclaration, memberReference)
     IN IF lookup # NoResult
          THEN /\ Fail(lookup)
               /\ UNCHANGED <<astDeclarations, astSymbolName>>
          ELSE /\ astDeclarations' =
                    SelectSeq(<<1, 2, 3, 4>>,
                              LAMBDA c : table.decls[c].name = memberReference.memberIdentifier)
               /\ astSymbolName' = memberReference.memberIdentifier
               /\ pc' = "select"
               /\ UNCHANGED result
  /\ UNCHANGED <<table, reference, index, currentDeclaration>>

\* lines 103-117: one more member reference: its identifier and the children
\* of currentDeclaration with that name
LookupMember ==
  /\ pc = "loop"
  /\ index <= Len(reference.memberReferences)
  /\ LET memberReference == reference.memberReferences[index]
         lookup == MemberLookup(table, currentDeclaration, memberReference)
     IN IF lookup # NoResult
          THEN /\ Fail(lookup)
               /\ UNCHANGED <<astDeclarations, astSymbolName>>
          ELSE /\ astDeclarations' =
                    FindChildrenWithName(table, currentDeclaration, memberReference.memberIdentifier)
               /\ astSymbolName' = memberReference.memberIdentifier
               /\ pc' = "select"
               /\ UNCHANGED result
  /\ UNCHANGED <<table, reference, index, currentDeclaration>>

\* line 131: the loop is over
Return ==
  /\ pc = "loop"
  /\ index > Len(reference.memberReferences)
  /\ result' = Resolved(currentDeclaration)
  /\ pc' = "done"
  /\ UNCHANGED <<table, reference, locals>>

Next ==
  \/ CheckPackageName
  \/ CheckImportPath
  \/ LookupRoot
  \/ Select
  \/ LookupMember
  \/ Return

Spec == Init /\ [][Next]_vars

(***************************************************************************)
(* Vocabulary of the properties.                                           *)
(***************************************************************************)
\* the member reference the call is processing
Segment == reference.memberReferences[index]

\* the reference with only its first k member references
Prefix(ref, k) == [ref EXCEPT !.memberReferences = SubSeq(ref.memberReferences, 1, k)]

\* the member reference has a plain identifier
HasPlainIdentifier(m) == m.memberSymbol = Undefined /\ m.memberIdentifier # Undefined

\* the reference passes the package name check
PackageNameAccepted(ref) == ref.packageName \in {Undefined, WorkingPackageName}

\* number of candidates of the given kind
CountOfKind(t, decls, kind) == Cardinality({ i \in 1..Len(decls) : t.decls[decls[i]].kind = kind })

\* the declarations of a sequence
Range(seq) == { seq[i] : i \in 1..Len(seq) }

SevenTags == {"class", "enum", "function", "interface", "namespace", "type", "variable"}

(***************************************************************************)
(* C1                                                                      *)
(***************************************************************************)
\* C1 as stated: whenever the narrowing step is reached for a member reference
\* whose selector tag is none of the seven kind tags, whatever the selector
\* family, the call fails with UnsupportedSelectorValue.
C1_AnyFamilyUnknownTag ==
  [][ (pc = "select" /\ Segment.selector # NoSelector /\ Segment.selector.selector \notin SevenTags)
        => (pc' = "done" /\ result'.kind = "UnsupportedSelectorValue") ]_vars

\* C1 amended: whenever the narrowing step is reached for a member reference
\* with a system selector whose tag is none of the seven kind tags, the call
\* fails with UnsupportedSelectorValue naming the tag, however many candidates
\* there are; a selector of another family fails with
\* UnsupportedSelectorFamily instead.
C1_SystemUnknownTag ==
  [][ (pc = "select" /\ Segment.selector # NoSelector /\ Segment.selector.selector \notin SevenTags)
        => /\ pc' = "done"
           /\ IF Segment.selector.selectorKind = "system"
                THEN result' = ResolverFailure("UnsupportedSelectorValue",
                                 <<"Unsupported system selector", Segment.selector.selector>>)
                ELSE result'.kind = "UnsupportedSelectorFamily" ]_vars

\* C1 witness: a member lookup found several candidates and the system
\* selector "constructor" was rejected
C1_Witness ==
  /\ pc = "done" /\ result.kind = "UnsupportedSelectorValue"
  /\ index = 2 /\ Len(astDeclarations) > 1
  /\ Segment.selector.selector \notin SevenTags

(***************************************************************************)
(* C2                                                                      *)
(***************************************************************************)
\* C2: at the narrowing step of a member reference without selector, several
\* candidates make the call fail with AmbiguousReference (no candidate is
\* returned), and exactly one candidate is selected: it becomes the current
\* declaration, and the result of the call if the member reference is the
\* last one.
C2_AmbiguityInvariant ==
  [][ /\ (pc = "select" /\ Segment.selector = NoSelector /\ Len(astDeclarations) > 1)
         => (pc' = "done" /\ result'.kind = "AmbiguousReference" /\ result'.node \notin Range(astDeclarations))
      /\ (pc = "select" /\ Segment.selector = NoSelector /\ Len(astDeclarations) = 1)
         => (pc' = "loop" /\ currentDeclaration' = astDeclarations[1] /\ result' = NoResult)
      /\ (pc = "loop" /\ index > Len(reference.memberReferences)
            /\ reference.memberReferences[index - 1].selector = NoSelector)
         => (Len(astDeclarations) = 1 /\ result' = Resolved(astDeclarations[1])) ]_vars

\* C2 witness: a member without selector has two declarations
C2_Witness ==
  /\ pc = "done" /\ result.kind = "AmbiguousReference"
  /\ index = 2 /\ Len(astDeclarations) = 2 /\ Segment.selector = NoSelector

(***************************************************************************)
(* C3                                                                      *)
(***************************************************************************)
\* C3: a call with n >= 2 member references returns a declaration only if the
\* reference cut to its first n-1 member references resolves to a declaration
\* D, and the returned declaration is a child of D named as the last member
\* reference.
C3_SegmentMonotonicity ==
  (pc = "done" /\ ~IsFailure(result) /\ Len(reference.memberReferences) >= 2)
    => LET n == Len(reference.memberReferences)
           d == resolve(table, Prefix(reference, n - 1))
       IN /\ ~IsFailure(d)
          /\ result.node \in Range(table.decls[d.node].children)
          /\ table.decls[result.node].name = reference.memberReferences[n].memberIdentifier

\* C3 witness: a two-part reference resolved to a member chosen by selector
\* among two declarations
C3_Witness ==
  /\ pc = "done" /\ ~IsFailure(result) /\ Len(reference.memberReferences) = 2
  /\ Len(astDeclarations) = 2 /\ result.node \in {3, 4}

(***************************************************************************)
(* C4                                                                      *)
(***************************************************************************)
\* C4: if the reference cut to a non-empty prefix of its member references
\* fails, the call fails with the same failure, whatever follows the prefix.
C4_FirstFailure ==
  (pc = "done")
    => \A k \in 1..(Len(reference.memberReferences) - 1) :
         IsFailure(resolve(table, Prefix(reference, k)))
           => result = resolve(table, Prefix(reference, k))

\* C4 witness: the first member reference is ambiguous and a symbol-keyed
\* member reference follows it
C4_Witness ==
  /\ pc = "done" /\ result.kind = "AmbiguousReference"
  /\ Len(reference.memberReferences) = 2 /\ index = 1
  /\ reference.memberReferences[2] = SymbolSegment

(***************************************************************************)
(* C5                                                                      *)
(***************************************************************************)
\* C5 as stated: a reference that declares an import path, whatever its value,
\* and passes the package name check fails with UnsupportedImportPath.
C5_AnyImportPath ==
  (pc = "done" /\ reference.importPath # Undefined /\ PackageNameAccepted(reference))
    => result.kind = "UnsupportedImportPath"

\* C5 amended: a reference whose import path is a non-empty string and that
\* passes the package name check fails with UnsupportedImportPath, whatever
\* its member references and the table; an empty import path is treated as
\* no import path.
C5_NonEmptyImportPath ==
  /\ (pc = "done" /\ Truthy(reference.importPath) /\ PackageNameAccepted(reference))
       => result = ResolverFailure("UnsupportedImportPath", <<"Import paths are not supported">>)
  /\ (pc = "done" /\ reference.importPath = "")
       => result = resolve(table, [reference EXCEPT !.importPath = Undefined])

\* C5 witness: a reference with an import path that would otherwise resolve
C5_Witness ==
  /\ pc = "done" /\ result.kind = "UnsupportedImportPath"
  /\ ~IsFailure(resolve(table, [reference EXCEPT !.importPath = Undefined]))

(***************************************************************************)
(* C6                                                                      *)
(***************************************************************************)
\* C6: a reference with a package name other than the working package's fails
\* with UnsupportedExternalPackage whatever else is wrong with it; a reference
\* without package name or with the working package's name never does.
C6_PackageQualifier ==
  (pc = "done")
    => IF reference.packageName # Undefined /\ reference.packageName # WorkingPackageName
         THEN result = ResolverFailure("UnsupportedExternalPackage",
                         <<"External package references are not supported">>)
         ELSE result.kind # "UnsupportedExternalPackage"

\* C6 witness: an external reference that also has an import path and no
\* member references
C6_Witness ==
  /\ pc = "done" /\ result.kind = "UnsupportedExternalPackage"
  /\ Truthy(reference.importPath) /\ Len(reference.memberReferences) = 0

(***************************************************************************)
(* C8                                                                      *)
(***************************************************************************)
\* C8: at the narrowing step of a member reference with a system selector of
\* a recognized tag, the number of candidates of the selected kind decides:
\* none fails with NoDeclarationForSelector, one selects that candidate,
\* several fail with AmbiguousSelectorMatch.
C8_KindNarrowing ==
  [][ (pc = "select" /\ Segment.selector.selectorKind = "system"
         /\ Segment.selector.selector \in SevenTags)
        => LET kind == SelectorSyntaxKind(Segment.selector.selector)
               n == CountOfKind(table, astDeclarations, kind)
           IN /\ n = 0 => (pc' = "done" /\ result'.kind = "NoDeclarationForSelector")
              /\ n = 1 => /\ pc' = "loop" /\ result' = NoResult
                          /\ currentDeclaration' \in Range(astDeclarations)
                          /\ table.decls[currentDeclaration'].kind = kind
              /\ n > 1 => (pc' = "done" /\ result'.kind = "AmbiguousSelectorMatch"
                             /\ result'.node \notin Range(astDeclarations)) ]_vars

\* C8 witness: two candidates of the selected kind
C8_Witness ==
  /\ pc = "done" /\ result.kind = "AmbiguousSelectorMatch"
  /\ CountOfKind(table, astDeclarations, SelectorSyntaxKind(Segment.selector.selector)) = 2

(***************************************************************************)
(* C9                                                                      *)
(***************************************************************************)
\* C9: when the loop takes a member reference with a plain identifier and the
\* current declaration has no child of that name, the call fails with
\* NoMatchingMember naming the identifier, whatever the selector.
C9_MemberLookupFirst ==
  [][ (/\ pc = "loop" /\ index <= Len(reference.memberReferences)
       /\ HasPlainIdentifier(Segment)
       /\ \A c \in Range(table.decls[currentDeclaration].children) :
            table.decls[c].name # Segment.memberIdentifier)
        => /\ pc' = "done"
           /\ result' = ResolverFailure("NoMatchingMember",
                          <<"No member was found with name", Segment.memberIdentifier>>) ]_vars

\* C9 witness: no member of that name, and a selector of an unsupported family
C9_Witness ==
  /\ pc = "done" /\ result.kind = "NoMatchingMember" /\ index = 2
  /\ Segment.selector.selectorKind = "label"

(***************************************************************************)
(* C10                                                                     *)
(***************************************************************************)
\* C10: a reference that passes the qualifier checks and starts with a plain
\* identifier fails with UnknownExport when the identifier is no export and
\* with UnsupportedReexport when it is bound to an AstImport, whatever the
\* selector of the first member reference and whatever follows it.
C10_RootLookupFirst ==
  (/\ pc = "done" /\ PackageNameAccepted(reference) /\ ~Truthy(reference.importPath)
   /\ Len(reference.memberReferences) >= 1
   /\ HasPlainIdentifier(reference.memberReferences[1]))
    => LET n == reference.memberReferences[1].memberIdentifier IN
         /\ table.exports[n] = NoEntity
              => result = ResolverFailure("UnknownExport",
                            <<"The package", WorkingPackageName, "does not have an export", n>>)
         /\ table.exports[n] = ImportEntity
              => result = ResolverFailure("UnsupportedReexport",
                            <<"Reexported declarations are not supported">>)

\* C10 witness: a reexport referenced with an unsupported selector and a
\* second member reference
C10_Witness ==
  /\ pc = "done" /\ result.kind = "UnsupportedReexport"
  /\ reference.memberReferences[1].selector.selectorKind = "label"
  /\ Len(reference.memberReferences) = 2
====
